---- MODULE Spec2Model ----
(***************************************************************************)
(* A model of src/src/lib.rs: a red-black tree of nodes kept in a SlotMap  *)
(* and threaded by prev/next links into an order chain.  The tree is       *)
(* addressed by NodeKey handles only; contents are never compared.         *)
(*                                                                         *)
(* A tree value t is a record [nodes, root, panic, spin]: nodes is the     *)
(* SlotMap (a function whose DOMAIN is the set of live keys), root the     *)
(* Option<NodeKey> (None is modelled as 0, which is never a key), panic    *)
(* records that an unwrap()/panic! was hit, spin that a loop ran out of    *)
(* the iteration budget LoopFuel.  Every private method of Tree is an      *)
(* operator from tree values to tree values, the statements of the method  *)
(* composed in program order.                                              *)
(***************************************************************************)
EXTENDS Integers, Sequences, FiniteSets, TLC

\* ----- bounds -----------------------------------------------------------
MaxLive == 6                    \* most nodes held in the store at once
Values == {7}                   \* contents the caller may pass in; no operation
                                \* reads contents, so one value stands for all
MaxKeys == 11                   \* nodes deletion_test holds at once, the most of any test
Keys == 1 .. MaxKeys            \* NodeKey universe
LoopFuel == 2 * MaxLive + 4     \* iteration budget of every loop / walk

\* ----- Option<NodeKey>, Color, NodeType ---------------------------------
None == 0
Removed == -1                   \* Some(key) of a node that was removed from the store
NullKey == -2                   \* a NodeKey no insert has ever returned (NodeKey::default())
RED == "RED"
BLACK == "BLACK"
LeftChild == "LeftChild"
RightChild == "RightChild"
Orphan == "Orphan"
NodeTypePanic == "NodeTypePanic"  \* get_node_type hit an unwrap() of a missing node

\* Node::new with color: Color::BLACK
Node_new_Black(contents) ==
  [parent |-> None, left |-> None, right |-> None, contents |-> contents,
   prev |-> None, next |-> None, color |-> BLACK]

\* Node::new
Node_new(contents) ==
  [parent |-> None, left |-> None, right |-> None, contents |-> contents,
   prev |-> None, next |-> None, color |-> RED]

\* Tree::new
Tree_new == [nodes |-> [k \in {} |-> Node_new(None)], root |-> None, panic |-> FALSE, spin |-> FALSE]

\* ----- the SlotMap ------------------------------------------------------
Live(t, k) == k \in DOMAIN t.nodes

Panic(t) == [t EXCEPT !.panic = TRUE]

Spin(t) == [t EXCEPT !.spin = TRUE]

Stopped(t) == t.panic \/ t.spin

\* a lookup whose unwrap() never fails
Rd_Unchecked(t, k) == t

\* self.nodes.get(k).unwrap() as a statement: fails when k is not in the store
Rd(t, k) == IF Stopped(t) THEN t ELSE IF Live(t, k) THEN t ELSE Panic(t)

\* keys named by some link of a stored node
Referenced(t) ==
  UNION { {t.nodes[k].parent, t.nodes[k].left, t.nodes[k].right,
           t.nodes[k].prev, t.nodes[k].next} : k \in DOMAIN t.nodes }

\* keys SlotMap::insert may hand out: a key is never equal to a key that is
\* live or still named by a link
FreeKeys(t) == Keys \ (DOMAIN t.nodes \cup Referenced(t) \cup {t.root})

NewKey(t) == CHOOSE k \in FreeKeys(t) : \A j \in FreeKeys(t) : k <= j

\* self.nodes.insert(Node::new(value))
SlotInsert(t, k, value) ==
  [t EXCEPT !.nodes = [x \in (DOMAIN t.nodes) \cup {k} |->
                         IF x = k THEN Node_new(value) ELSE t.nodes[x]]]

\* A SlotMap key carries the version of its slot: once removed it is never
\* live again and never equal to a key handed out later, and every lookup of
\* it gives None.  All removed keys therefore behave alike, and the model
\* writes each of them as Removed: a link that still names the removed key
\* after remove() keeps dangling, under that name.
Dangling(link, k) == IF link = k THEN Removed ELSE link

Forget(n, k) ==
  [parent |-> Dangling(n.parent, k), left |-> Dangling(n.left, k),
   right |-> Dangling(n.right, k), contents |-> n.contents,
   prev |-> Dangling(n.prev, k), next |-> Dangling(n.next, k), color |-> n.color]

\* a delete_node that leaves the record in the store
SlotRemove_Kept(t, k) == t

\* self.nodes.remove(k): Option result ignored, a missing key is no failure
SlotRemove(t, k) ==
  IF Stopped(t) THEN t
  ELSE [t EXCEPT !.nodes = [x \in (DOMAIN t.nodes) \ {k} |-> Forget(t.nodes[x], k)],
                 !.root = Dangling(t.root, k)]

\* ----- getters and setters ----------------------------------------------
\* The getters give the field; the unwrap() inside them is the Rd statement
\* the calling operator carries for the key.
get_right(t, node) == IF Live(t, node) THEN t.nodes[node].right ELSE None

get_left(t, node) == IF Live(t, node) THEN t.nodes[node].left ELSE None

get_parent(t, node) == IF Live(t, node) THEN t.nodes[node].parent ELSE None

get_prev(t, node) == IF Live(t, node) THEN t.nodes[node].prev ELSE None

get_next(t, node) == IF Live(t, node) THEN t.nodes[node].next ELSE None

get_contents(t, node) == IF Live(t, node) THEN t.nodes[node].contents ELSE None

set_right(t, node, right) ==
  IF Stopped(t) THEN t
  ELSE IF ~Live(t, node) THEN Panic(t)
  ELSE [t EXCEPT !.nodes[node].right = right]

set_left(t, node, left) ==
  IF Stopped(t) THEN t
  ELSE IF ~Live(t, node) THEN Panic(t)
  ELSE [t EXCEPT !.nodes[node].left = left]

set_parent(t, node, parent) ==
  IF Stopped(t) THEN t
  ELSE IF ~Live(t, node) THEN Panic(t)
  ELSE [t EXCEPT !.nodes[node].parent = parent]

set_prev(t, node, prev) ==
  IF Stopped(t) THEN t
  ELSE IF ~Live(t, node) THEN Panic(t)
  ELSE [t EXCEPT !.nodes[node].prev = prev]

set_next(t, node, next) ==
  IF Stopped(t) THEN t
  ELSE IF ~Live(t, node) THEN Panic(t)
  ELSE [t EXCEPT !.nodes[node].next = next]

set_color(t, node, color) ==
  IF Stopped(t) THEN t
  ELSE IF ~Live(t, node) THEN Panic(t)
  ELSE [t EXCEPT !.nodes[node].color = color]

\* get_color takes an Option and never fails: None and a missing node are BLACK
get_color(t, node) ==
  IF node = None THEN BLACK
  ELSE IF Live(t, node) THEN t.nodes[node].color ELSE BLACK

set_root(t, r) == IF Stopped(t) THEN t ELSE [t EXCEPT !.root = r]

\* ----- structural queries -----------------------------------------------
get_node_type(t, node) ==
  IF ~Live(t, node) THEN NodeTypePanic
  ELSE LET parent == t.nodes[node].parent IN
       IF parent # None
       THEN IF ~Live(t, parent) THEN NodeTypePanic
            ELSE IF t.nodes[parent].left = node THEN LeftChild ELSE RightChild
       ELSE Orphan

\* the sibling; the unwraps are those of get_node_type
get_sibling(t, node) ==
  LET parent == get_parent(t, node)
      ty == get_node_type(t, node) IN
  IF ty = LeftChild THEN get_right(t, parent)
  ELSE IF ty = RightChild THEN get_left(t, parent)
  ELSE None

\* TRUE when get_uncle(node) completes without a failed unwrap
get_uncle_ok(t, node) ==
  /\ Live(t, node)
  /\ LET parent == t.nodes[node].parent IN
     parent # None =>
       /\ get_node_type(t, parent) # NodeTypePanic
       /\ get_node_type(t, parent) # Orphan => Live(t, get_parent(t, parent))

\* get_uncle that never finds the parent's sibling
get_uncle_NoSibling(t, node) == None

get_uncle(t, node) ==
  LET parent == get_parent(t, node) IN
  IF parent # None
  THEN LET ty == get_node_type(t, parent) IN
       IF ty = LeftChild THEN get_right(t, get_parent(t, parent))
       ELSE IF ty = RightChild THEN get_left(t, get_parent(t, parent))
       ELSE None
  ELSE None

\* get_replacement_node: the panic on two children is carried by delete_node
get_replacement_node(t, node) ==
  LET left == get_left(t, node)
      right == get_right(t, node) IN
  IF left = None /\ right = None THEN None
  ELSE IF left # None THEN left
  ELSE right

\* `if k.is_some() { self.set_x(k.unwrap(), v) }`
set_parent_some(t, node, parent) == IF node = None THEN t ELSE set_parent(t, node, parent)

set_prev_some(t, node, prev) == IF node = None THEN t ELSE set_prev(t, node, prev)

set_next_some(t, node, next) == IF node = None THEN t ELSE set_next(t, node, next)

set_color_some(t, node, color) == IF node = None THEN t ELSE set_color(t, node, color)

\* self.set_color(to, self.get_color(from))
copy_color(t, to, from) == set_color(t, to, get_color(t, from))

\* a failed unwrap inside a query: the tree goes on only when ok holds
Check(t, ok) == IF Stopped(t) \/ ok THEN t ELSE Panic(t)

\* attach `child` in the slot of parent that get_node_type names, or as root
SetSlot(t, ty, parent, child) ==
  IF Stopped(t) THEN t
  ELSE IF ty = LeftChild THEN set_left(t, parent, child)
  ELSE IF ty = RightChild THEN set_right(t, parent, child)
  ELSE IF ty = Orphan THEN set_root(t, child)
  ELSE Panic(t)

\* match self.get_node_type(node) { LeftChild => set_left(parent.unwrap(), child),
\*   RightChild => set_right(parent.unwrap(), child), Orphan => self.root = child }
SetSlotOf(t, node, parent, child) == SetSlot(t, get_node_type(t, node), parent, child)

\* the same match with `Orphan => panic!("None root node can't be an orphan")`
SetChildSlotOf(t, node, parent, child) ==
  IF Stopped(t) THEN t
  ELSE IF get_node_type(t, node) = LeftChild THEN set_left(t, parent, child)
  ELSE IF get_node_type(t, node) = RightChild THEN set_right(t, parent, child)
  ELSE Panic(t)

\* ----- rotations and the structural swap ---------------------------------
left_rotate_StaleParent(t, rotation_root) ==
  LET pivot == get_right(t, rotation_root)
      pivot_left == get_left(t, pivot)
      parent == get_parent(t, rotation_root)
      t1 == Rd(Rd(t, rotation_root), pivot)
      t2 == set_right(t1, rotation_root, pivot_left)
      t3 == set_parent_some(t2, pivot_left, rotation_root)
      t4 == set_parent(t3, pivot, parent)
      t5 == SetSlotOf(t4, rotation_root, parent, pivot)
  IN set_left(t5, pivot, rotation_root)

left_rotate(t, rotation_root) ==
  LET pivot == get_right(t, rotation_root)
      pivot_left == get_left(t, pivot)
      parent == get_parent(t, rotation_root)
      t1 == Rd(Rd(t, rotation_root), pivot)     \* .unwrap() of a missing pivot fails
      t2 == set_right(t1, rotation_root, pivot_left)
      t3 == set_parent_some(t2, pivot_left, rotation_root)
      t4 == set_parent(t3, pivot, parent)
      t5 == SetSlotOf(t4, rotation_root, parent, pivot)
      t6 == set_left(t5, pivot, rotation_root)
  IN set_parent(t6, rotation_root, pivot)

\* right_rotate that empties the left slot of the rotation root instead of
\* moving the right child of the pivot into it
right_rotate_LosesInward(t, rotation_root) ==
  LET pivot == get_left(t, rotation_root)
      parent == get_parent(t, rotation_root)
      t1 == Rd(Rd(t, rotation_root), pivot)
      t2 == set_left(t1, rotation_root, None)
      t4 == set_parent(t2, pivot, parent)
      t5 == SetSlotOf(t4, rotation_root, parent, pivot)
      t6 == set_right(t5, pivot, rotation_root)
  IN set_parent(t6, rotation_root, pivot)

right_rotate(t, rotation_root) ==
  LET pivot == get_left(t, rotation_root)
      pivot_right == get_right(t, pivot)
      parent == get_parent(t, rotation_root)
      t1 == Rd(Rd(t, rotation_root), pivot)
      t2 == set_left(t1, rotation_root, pivot_right)
      t3 == set_parent_some(t2, pivot_right, rotation_root)
      t4 == set_parent(t3, pivot, parent)
      t5 == SetSlotOf(t4, rotation_root, parent, pivot)
      t6 == set_right(t5, pivot, rotation_root)
  IN set_parent(t6, rotation_root, pivot)

\* "Swap Left Children" left out
swap_left_Skipped(t, to, child, other) == t

\* if child != Some(other) { set_left(to, child); if child.is_some() { set_parent(child, to) } }
swap_left(t, to, child, other) ==
  IF child # other THEN set_parent_some(set_left(t, to, child), child, to) ELSE t

swap_right(t, to, child, other) ==
  IF child # other THEN set_parent_some(set_right(t, to, child), child, to) ELSE t

\* swap_nodes without its last three lines
swap_colors_Skipped(t, node_1, node_2) == t

\* Swap Colors
swap_colors(t, node_1, node_2) ==
  set_color(set_color(t, node_1, get_color(t, node_2)), node_2, get_color(t, node_1))

\* swap_nodes without the `if node_1_parent == Some(node_2) ... else if ...`
\* that redirects the parent of the lower node when the two are adjacent
swap_nodes_NoAdjacency(t, node_1, node_2) ==
  LET node_1_parent == get_parent(t, node_1)
      node_2_parent == get_parent(t, node_2)
      node_1_right == get_right(t, node_1)
      node_2_right == get_right(t, node_2)
      node_1_left == get_left(t, node_1)
      node_2_left == get_left(t, node_2)
      t0 == Rd(Rd(t, node_1), node_2)
      t1 == SetSlotOf(t0, node_1, node_1_parent, node_2)
      t2 == SetSlotOf(t1, node_2, node_2_parent, node_1)
      t3 == set_parent(t2, node_1, node_2_parent)
      t4 == set_parent(t3, node_2, node_1_parent)
      t5 == swap_left(t4, node_1, node_2_left, node_1)
      t6 == swap_left(t5, node_2, node_1_left, node_2)
      t7 == swap_right(t6, node_1, node_2_right, node_1)
      t8 == swap_right(t7, node_2, node_1_right, node_2)
  IN swap_colors(t8, node_1, node_2)

swap_nodes(t, node_1, node_2) ==
  LET p1 == get_parent(t, node_1)
      p2 == get_parent(t, node_2)
      node_1_right == get_right(t, node_1)
      node_2_right == get_right(t, node_2)
      node_1_left == get_left(t, node_1)
      node_2_left == get_left(t, node_2)
      \* Swap parents
      node_1_parent == IF p1 = node_2 THEN node_1 ELSE p1
      node_2_parent == IF p1 # node_2 /\ p2 = node_1 THEN node_2 ELSE p2
      t0 == Rd(Rd(t, node_1), node_2)
      t1 == SetSlotOf(t0, node_1, node_1_parent, node_2)
      t2 == SetSlotOf(t1, node_2, node_2_parent, node_1)
      t3 == set_parent(t2, node_1, node_2_parent)
      t4 == set_parent(t3, node_2, node_1_parent)
      \* Swap Left Children
      t5 == swap_left(t4, node_1, node_2_left, node_1)
      t6 == swap_left(t5, node_2, node_1_left, node_2)
      \* Swap Right Children
      t7 == swap_right(t6, node_1, node_2_right, node_1)
      t8 == swap_right(t7, node_2, node_1_right, node_2)
  IN swap_colors(t8, node_1, node_2)

\* ----- insertion fixup ----------------------------------------------------
\* lines 355-361: recolor, then rotate the grandparent away from the conflict
rotate_grandparent(t, parent, grandparent) ==
  IF Stopped(t) THEN t
  ELSE IF get_node_type(t, parent) = NodeTypePanic THEN Panic(t)
  ELSE IF get_node_type(t, parent) = LeftChild THEN right_rotate(t, grandparent)
  ELSE left_rotate(t, grandparent)

insert_rebalance_outer(t, node, parent, grandparent) ==
  [t |-> rotate_grandparent(set_color(set_color(t, parent, BLACK), grandparent, RED),
                            parent, grandparent),
   node |-> node]

\* lines 350-351 after the inner rotation: node = parent; parent = get_parent(node).unwrap()
insert_rebalance_inner(t, node, grandparent) ==
  insert_rebalance_outer(Rd(Rd(t, node), get_parent(t, node)),
                         node, get_parent(t, node), grandparent)

\* lines 341-361: the uncle is BLACK
insert_rebalance_rotate(t, node, parent, grandparent) ==
  IF get_node_type(t, node) # get_node_type(t, parent)
  THEN insert_rebalance_inner(
         IF get_node_type(t, parent) = LeftChild
         THEN left_rotate(t, parent) ELSE right_rotate(t, parent),
         parent, grandparent)
  ELSE insert_rebalance_outer(t, node, parent, grandparent)

\* the RED-uncle case without `self.set_color(grandparent.unwrap(), Color::RED)`
insert_rebalance_cases_BlackGrandparent(t, node, parent, grandparent, uncle) ==
  IF Stopped(t) THEN [t |-> t, node |-> node]
  ELSE IF get_color(t, uncle) = RED
  THEN [t |-> set_color(set_color(t, uncle, BLACK), parent, BLACK), node |-> grandparent]
  ELSE insert_rebalance_rotate(t, node, parent, grandparent)

\* lines 331-362, past the unwraps of parent, grandparent and get_uncle
insert_rebalance_cases(t, node, parent, grandparent, uncle) ==
  IF Stopped(t) THEN [t |-> t, node |-> node]
  ELSE IF get_color(t, uncle) = RED
  THEN [t |-> set_color(set_color(set_color(t, uncle, BLACK), parent, BLACK),
                        grandparent, RED),
        node |-> grandparent]
  ELSE insert_rebalance_rotate(t, node, parent, grandparent)

\* One iteration of the while loop of insert_rebalance, entered with the
\* parent of node RED; gives the tree and the node the next iteration tests.
insert_rebalance_body(t, node) ==
  insert_rebalance_cases(
    Check(Rd(Rd(t, get_parent(t, node)), get_parent(t, get_parent(t, node))),
          get_uncle_ok(t, node)),
    node, get_parent(t, node), get_parent(t, get_parent(t, node)), get_uncle(t, node))

RECURSIVE insert_rebalance_loop(_, _, _)
insert_rebalance_next(r, fuel) == insert_rebalance_loop(r.t, r.node, fuel)

insert_rebalance_loop(t, node, fuel) ==
  IF Stopped(t) THEN t
  ELSE IF ~Live(t, node) THEN Panic(t)          \* self.get_parent(node)
  ELSE IF get_color(t, get_parent(t, node)) # RED THEN t
  ELSE IF fuel = 0 THEN Spin(t)
  ELSE insert_rebalance_next(insert_rebalance_body(t, node), fuel - 1)

\* self.set_color(self.root.unwrap(), Color::BLACK)
blacken_root(t) == set_color(t, t.root, BLACK)

insert_rebalance(t, node) == blacken_root(insert_rebalance_loop(t, node, LoopFuel))

\* ----- deletion fixup -----------------------------------------------------
\* match get_node_type(sibling) { LeftChild => right_rotate(parent),
\*   RightChild => left_rotate(parent), Orphan => panic!("A sibling node can't be an orphan") }
rotate_to_sibling(t, sibling, parent) ==
  IF Stopped(t) THEN t
  ELSE IF get_node_type(t, sibling) = LeftChild THEN right_rotate(t, parent)
  ELSE IF get_node_type(t, sibling) = RightChild THEN left_rotate(t, parent)
  ELSE Panic(t)

\* lines 270-286: the sibling is BLACK and its left child RED
fix_left_red(t, sibling, parent, left) ==
  IF Stopped(t) THEN t
  ELSE IF get_node_type(t, sibling) = LeftChild
  THEN \* Left-Left
       right_rotate(copy_color(copy_color(t, left, sibling), sibling, parent), parent)
  ELSE IF get_node_type(t, sibling) = RightChild
  THEN \* Right-Left
       left_rotate(right_rotate(copy_color(t, left, parent), sibling), parent)
  ELSE Panic(t)

\* lines 289-305: the sibling is BLACK and its right child RED
fix_right_red(t, sibling, parent, right) ==
  IF Stopped(t) THEN t
  ELSE IF get_node_type(t, sibling) = LeftChild
  THEN \* Left-Right
       right_rotate(left_rotate(copy_color(t, right, parent), sibling), parent)
  ELSE IF get_node_type(t, sibling) = RightChild
  THEN \* Right-Right
       left_rotate(copy_color(copy_color(t, right, sibling), sibling, parent), parent)
  ELSE Panic(t)

\* lines 309-315: 2 Black children; t is the tree with the sibling made RED
fix_black_children(t, node, parent) ==
  IF get_color(t, parent) = BLACK
  THEN [t |-> Rd(t, parent), node |-> parent, brk |-> FALSE]
  ELSE [t |-> set_color(t, parent, BLACK), node |-> node, brk |-> TRUE]

\* lines 269-316: the sibling is BLACK; t has passed get_left(sibling.unwrap())
fix_black_sibling(t, node, sibling, parent) ==
  IF Stopped(t) THEN [t |-> t, node |-> node, brk |-> TRUE]
  ELSE IF get_color(t, get_left(t, sibling)) = RED
  THEN [t |-> set_color(fix_left_red(t, sibling, parent, get_left(t, sibling)),
                        parent, BLACK),
        node |-> node, brk |-> TRUE]
  ELSE IF get_color(t, get_right(t, sibling)) = RED
  THEN [t |-> set_color(fix_right_red(t, sibling, parent, get_right(t, sibling)),
                        parent, BLACK),
        node |-> node, brk |-> TRUE]
  ELSE fix_black_children(set_color(t, sibling, RED), node, parent)

\* the RED-sibling case goes round again without recoloring or rotating
fix_double_black_cases_RedSiblingIdle(t, node, sibling, parent) ==
  IF Stopped(t) THEN [t |-> t, node |-> node, brk |-> TRUE]
  ELSE IF sibling = None
  THEN [t |-> Rd(t, parent), node |-> parent, brk |-> FALSE]
  ELSE IF get_color(t, sibling) = RED
  THEN [t |-> t, node |-> node, brk |-> FALSE]
  ELSE fix_black_sibling(Rd(t, sibling), node, sibling, parent)

\* lines 255-317, past the unwraps of get_sibling and get_parent
fix_double_black_cases(t, node, sibling, parent) ==
  IF Stopped(t) THEN [t |-> t, node |-> node, brk |-> TRUE]
  ELSE IF sibling = None
  THEN \* No sibling, double black is pushed up
       [t |-> Rd(t, parent), node |-> parent, brk |-> FALSE]
  ELSE IF get_color(t, sibling) = RED
  THEN [t |-> rotate_to_sibling(set_color(set_color(t, parent, RED), sibling, BLACK),
                                sibling, parent),
        node |-> node, brk |-> FALSE]
  ELSE fix_black_sibling(Rd(t, sibling), node, sibling, parent)

\* One iteration of the while loop of fix_double_black, entered with node
\* different from root; brk is TRUE when the iteration ends in `break`.
fix_double_black_body(t, node) ==
  fix_double_black_cases(Check(t, get_node_type(t, node) # NodeTypePanic),
                         node, get_sibling(t, node), get_parent(t, node))

RECURSIVE fix_double_black_loop(_, _, _)
fix_double_black_next(r, fuel) ==
  IF r.brk THEN r.t ELSE fix_double_black_loop(r.t, r.node, fuel)

fix_double_black_loop(t, node, fuel) ==
  IF Stopped(t) THEN t
  ELSE IF node = t.root THEN t
  ELSE IF fuel = 0 THEN Spin(t)
  ELSE fix_double_black_next(fix_double_black_body(t, node), fuel - 1)

\* fix_double_black that leaves the deficit where it is
fix_double_black_Skipped(t, node) == t

fix_double_black(t, node) == fix_double_black_loop(t, node, LoopFuel)

\* ----- order chain --------------------------------------------------------
update_order_for_deletion(t, deleted_node) ==
  LET next == get_next(t, deleted_node)
      prev == get_prev(t, deleted_node)
      t1 == set_prev_some(Rd(t, deleted_node), next, prev)
  IN set_next_some(t1, prev, next)

\* ----- public operations ---------------------------------------------------
\* create_root that keeps the color Node::new gives
create_root_KeepsRed(t, value) == set_root(SlotInsert(t, NewKey(t), value), NewKey(t))

create_root(t, value) ==
  LET root == NewKey(t)
      t1 == SlotInsert(t, root, value)
      t2 == set_color(t1, root, BLACK)
  IN set_root(t2, root)

\* lines 106-110 without the match that sets prev of the successor
link_next_NoBackLink(t, new_node, next) == set_next(t, new_node, next)

\* lines 106-110: set_next(new_node, next); match get_next(new_node) { Some(next) => set_prev(next, new_node) }
link_next(t, new_node, next) ==
  set_prev_some(set_next(t, new_node, next), next, new_node)

\* lines 138-141
link_prev(t, new_node, prev) ==
  set_next_some(set_prev(t, new_node, prev), prev, new_node)

\* lines 98-104
place_after(t, existing_node, existing_node_next, new_node) ==
  IF get_right(t, existing_node) = None
  THEN set_parent(set_right(t, existing_node, new_node), new_node, existing_node)
  ELSE set_parent(set_left(t, existing_node_next, new_node), new_node, existing_node_next)

\* lines 131-137
place_before(t, existing_node, existing_node_prev, new_node) ==
  IF get_left(t, existing_node) = None
  THEN set_parent(set_left(t, existing_node, new_node), new_node, existing_node)
  ELSE set_parent(set_right(t, existing_node_prev, new_node), new_node, existing_node_prev)

insert_after(t, existing_node, value) ==
  LET new_node == NewKey(t)
      existing_node_next == get_next(t, existing_node)
      t0 == Rd(SlotInsert(t, new_node, value), existing_node)
      t1 == place_after(t0, existing_node, existing_node_next, new_node)
      t2 == link_next(t1, new_node, existing_node_next)
      t3 == set_prev(t2, new_node, existing_node)
      t4 == set_next(t3, existing_node, new_node)
  IN insert_rebalance(t4, new_node)

insert_before(t, existing_node, value) ==
  LET new_node == NewKey(t)
      existing_node_prev == get_prev(t, existing_node)
      t0 == Rd(SlotInsert(t, new_node, value), existing_node)
      t1 == place_before(t0, existing_node, existing_node_prev, new_node)
      t2 == link_prev(t1, new_node, existing_node_prev)
      t3 == set_next(t2, new_node, existing_node)
      t4 == set_prev(t3, existing_node, new_node)
  IN insert_rebalance(t4, new_node)

\* lines 177-180 painting the parent instead of the sibling
redden_sibling_Parent(t, node) ==
  set_color_some(Check(t, get_node_type(t, node) # NodeTypePanic),
                 get_parent(t, node), RED)

\* lines 177-180: the node must be red
redden_sibling(t, node) ==
  set_color_some(Check(t, get_node_type(t, node) # NodeTypePanic),
                 get_sibling(t, node), RED)

\* lines 182-187 clearing the left slot of the parent whichever slot names node
detach_LeftSlot(t, node) == set_left(Rd(t, node), get_parent(t, node), None)

\* lines 182-187: detach node from its parent's child slot
detach(t, node) == SetChildSlotOf(Rd(t, node), node, get_parent(t, node), None)

\* lines 167-188
delete_leaf_unlink(t, node, both_black) ==
  IF node = t.root THEN set_root(t, None)
  ELSE detach(IF both_black THEN fix_double_black(t, node) ELSE redden_sibling(t, node),
              node)

\* the branch of delete_node for a node without children
delete_leaf(t, node, both_black) ==
  SlotRemove(update_order_for_deletion(delete_leaf_unlink(t, node, both_black), node),
             node)

\* lines 210-214 without the else branch that paints the replacement BLACK
delete_recolor_KeepsColor(t, node, replacement, both_black) ==
  IF both_black THEN fix_double_black(t, node) ELSE t

\* lines 210-214: after the node is removed
delete_recolor(t, node, replacement, both_black) ==
  IF both_black THEN fix_double_black(t, node) ELSE set_color(t, replacement, BLACK)

\* lines 199-209: the replacement takes the slot of the node, the node
\* leaves the order chain and the store
delete_one_child_remove(t, node, replacement) ==
  LET parent == get_parent(t, node)
      t1 == SetChildSlotOf(t, node, parent, replacement)
      t2 == set_parent(t1, replacement, parent)
      t3 == update_order_for_deletion(t2, node)
  IN SlotRemove(t3, node)

\* the branch of delete_node for a node with one child, replacement
delete_one_child(t, node, replacement, both_black) ==
  IF node = t.root
  THEN LET t1 == swap_nodes(t, node, replacement)
           t2 == set_left(t1, replacement, None)
           t3 == set_right(t2, replacement, None)
       IN SlotRemove(t3, node)
  ELSE delete_recolor(delete_one_child_remove(t, node, replacement),
                      node, replacement, both_black)

\* lines 158-160
delete_node_swap(t, node) ==
  IF get_left(t, node) # None /\ get_right(t, node) # None
  THEN swap_nodes(Rd(t, node), node, get_next(t, node))   \* .unwrap(): None is no key
  ELSE Rd(t, node)

\* lines 162-216; get_replacement_node panics on a node with two children
delete_node_replace(t, node, replacement, both_black) ==
  IF Stopped(t) THEN t
  ELSE IF get_left(t, node) # None /\ get_right(t, node) # None THEN Panic(t)
  ELSE IF replacement = None THEN delete_leaf(t, node, both_black)
  ELSE delete_one_child(t, node, replacement, both_black)

\* both_black computed from the color of the node alone
both_black_NodeOnly(t, node) == get_color(t, node) = BLACK

\* lines 163-164
both_black(t, node) ==
  get_color(t, node) = BLACK /\ get_color(t, get_replacement_node(t, node)) = BLACK

\* lines 162-164
delete_node_after_swap(t, node) ==
  delete_node_replace(t, node, get_replacement_node(t, node), both_black(t, node))

delete_node(t, node) == delete_node_after_swap(delete_node_swap(t, node), node)

has_root(t) == t.root # None

get_leftmost_node_from(t, start) ==
  LET RECURSIVE go(_, _)
      go(n, fuel) == IF fuel = 0 \/ ~Live(t, n) \/ t.nodes[n].left = None THEN n
                     ELSE go(t.nodes[n].left, fuel - 1)
  IN go(start, LoopFuel)

get_leftmost_node(t) ==
  IF t.root = None THEN None ELSE get_leftmost_node_from(t, t.root)

\* the iterations the while loop of get_leftmost_node makes from node; -1
\* when it is still running after `fuel` of them
RECURSIVE leftmost_iterations(_, _, _)
leftmost_iterations(t, node, fuel) ==
  IF ~Live(t, node) \/ t.nodes[node].left = None THEN 0
  ELSE IF fuel = 0 THEN -1
  ELSE IF leftmost_iterations(t, t.nodes[node].left, fuel - 1) = -1 THEN -1
  ELSE 1 + leftmost_iterations(t, t.nodes[node].left, fuel - 1)

\* ----- the state machine ---------------------------------------------------
VARIABLES nodes, root, status, last, calls

vars == <<nodes, root, status, last, calls>>

\* nodes, root: the fields of Tree; status: "ok", or how the program ended
\* ("panic", "spin"); last: the name of the public method called last;
\* calls: the calls a test of the source has made so far, in order.
\* the tree held in the variables
Cur == [nodes |-> nodes, root |-> root, panic |-> FALSE, spin |-> FALSE]

Init ==
  /\ nodes = Tree_new.nodes
  /\ root = Tree_new.root
  /\ status = "ok"
  /\ last = "new"
  /\ calls = <<>>

\* A call that completes installs its result.  A call that panics unwinds
\* and the Tree is dropped with the program; a call that never leaves a loop
\* never gives the tree back.  Either way no tree is left to observe.
CommitTree(r, op) ==
  /\ last' = op
  /\ IF r.panic THEN status' = "panic" /\ nodes' = Tree_new.nodes /\ root' = None
     ELSE IF r.spin THEN status' = "spin" /\ nodes' = Tree_new.nodes /\ root' = None
     ELSE status' = "ok" /\ nodes' = r.nodes /\ root' = r.root

Commit(r, op) == CommitTree(r, op) /\ UNCHANGED calls

CanInsert == Cardinality(DOMAIN nodes) < MaxLive /\ FreeKeys(Cur) # {}

CreateRoot(v) ==
  /\ status = "ok"
  /\ ~has_root(Cur)                     \* debug_assert!(!self.has_root())
  /\ CanInsert
  /\ Commit(create_root(Cur, v), "create_root")

InsertAfter(e, v) ==
  /\ status = "ok"
  /\ e \in DOMAIN nodes
  /\ CanInsert
  /\ Commit(insert_after(Cur, e, v), "insert_after")

InsertBefore(e, v) ==
  /\ status = "ok"
  /\ e \in DOMAIN nodes
  /\ CanInsert
  /\ Commit(insert_before(Cur, e, v), "insert_before")

DeleteNode(n) ==
  /\ status = "ok"
  /\ n \in DOMAIN nodes
  /\ Commit(delete_node(Cur, n), "delete_node")

Next ==
  \/ \E v \in Values : CreateRoot(v)
  \/ \E e \in Keys, v \in Values : InsertAfter(e, v)
  \/ \E e \in Keys, v \in Values : InsertBefore(e, v)
  \/ \E n \in Keys : DeleteNode(n)

Spec == Init /\ [][Next]_vars

\* ----- calls that break a precondition ---------------------------------------
\* create_root with its first line: debug_assert!(!self.has_root()) panics in
\* a build with debug assertions and is compiled out in a build without.
create_root_checked(t, value, debug_assertions) ==
  IF debug_assertions /\ has_root(t) THEN Panic(t) ELSE create_root(t, value)

\* The result of a call that broke its precondition is kept as the call left
\* it, and the run is not followed further: status "misused" says the call
\* returned normally.
CommitKept(r, op) ==
  /\ last' = op
  /\ status' = IF r.panic THEN "panic" ELSE IF r.spin THEN "spin" ELSE "misused"
  /\ nodes' = r.nodes
  /\ root' = r.root
  /\ UNCHANGED calls

\* create_root on a tree that has a root, in either build
CreateRootAgain(v, debug_assertions) ==
  /\ status = "ok"
  /\ has_root(Cur)
  /\ CanInsert
  /\ CommitKept(create_root_checked(Cur, v, debug_assertions), "create_root again")

\* handles that are not in the store: one never returned by an insert, and
\* the one delete_node has just removed
StaleHandles == {NullKey} \cup (IF last = "delete_node" THEN {Removed} ELSE {})

InsertAfterStale(h, v) ==
  /\ status = "ok"
  /\ h \in StaleHandles
  /\ CanInsert
  /\ Commit(insert_after(Cur, h, v), "insert_after stale")

InsertBeforeStale(h, v) ==
  /\ status = "ok"
  /\ h \in StaleHandles
  /\ CanInsert
  /\ Commit(insert_before(Cur, h, v), "insert_before stale")

DeleteNodeStale(h) ==
  /\ status = "ok"
  /\ h \in StaleHandles
  /\ Commit(delete_node(Cur, h), "delete_node stale")

\* the public accessors: each is self.nodes.get(node).unwrap() (get_mut for
\* set_contents and get_mut_contents) followed by a field access
Accessors ==
  {"set_contents", "get_contents", "get_mut_contents", "get_parent", "get_left",
   "get_right", "get_prev", "get_next"}

StaleCalls == {"insert_after stale", "insert_before stale", "delete_node stale"}
              \cup {a \o " stale" : a \in Accessors}

AccessStale(a, h) ==
  /\ status = "ok"
  /\ h \in StaleHandles
  /\ Commit(Rd(Cur, h), a \o " stale")

NextMisuse ==
  \/ Next
  \/ \E v \in Values, debug_assertions \in BOOLEAN : CreateRootAgain(v, debug_assertions)
  \/ \E h \in {NullKey, Removed}, v \in Values : InsertAfterStale(h, v)
  \/ \E h \in {NullKey, Removed}, v \in Values : InsertBeforeStale(h, v)
  \/ \E h \in {NullKey, Removed} : DeleteNodeStale(h)
  \/ \E a \in Accessors, h \in {NullKey, Removed} : AccessStale(a, h)

SpecMisuse == Init /\ [][NextMisuse]_vars

\* ----- observers used by the tests ------------------------------------------
\* get_nodes_order: the handles met walking next from the leftmost node.  The
\* walk reads the contents of each handle it meets, so a handle missing from
\* the store is where it fails; the handle is kept as the walk's last element.
RECURSIVE nodes_order_from(_, _, _)
nodes_order_from(t, node, fuel) ==
  IF node = None \/ fuel = 0 THEN <<>>
  ELSE IF ~Live(t, node) THEN <<node>>
  ELSE <<node>> \o nodes_order_from(t, get_next(t, node), fuel - 1)

get_nodes_order(t) == nodes_order_from(t, get_leftmost_node(t), LoopFuel)

\* the structural (left, self, right) traversal below node
RECURSIVE in_order(_, _, _)
in_order(t, node, fuel) ==
  IF node = None \/ fuel = 0 THEN <<>>
  ELSE IF ~Live(t, node) THEN <<node>>
  ELSE in_order(t, get_left(t, node), fuel - 1) \o <<node>>
       \o in_order(t, get_right(t, node), fuel - 1)

\* check_black_heights: nil is 1; -1 stands for the test's panic on a node
\* whose two sides differ
RECURSIVE check_black_heights(_, _, _)
check_black_heights(t, node, fuel) ==
  IF node = None THEN 1
  ELSE IF fuel = 0 \/ ~Live(t, node) THEN -1
  ELSE LET left_height == check_black_heights(t, get_left(t, node), fuel - 1)
           right_height == check_black_heights(t, get_right(t, node), fuel - 1)
       IN IF left_height = -1 \/ right_height = -1 \/ left_height # right_height THEN -1
          ELSE IF get_color(t, node) = RED THEN left_height
          ELSE left_height + 1

SeqSet(s) == {s[i] : i \in 1 .. Len(s)}

SeqWithout(s, x) == SelectSeq(s, LAMBDA y : y # x)

\* the contents of the handles of s, as the tests print them one after another
contents_of(t, s) == [i \in 1 .. Len(s) |-> get_contents(t, s[i])]

\* `if left.is_some() { queue.push(left.unwrap()) }`, then the same for right
push_children(queue, left, right) ==
  queue \o (IF left # None THEN <<left>> ELSE <<>>)
        \o (IF right # None THEN <<right>> ELSE <<>>)

\* get_level_order: the handles in breadth-first order; a handle missing from
\* the store ends the walk, where the test fails in get_contents
RECURSIVE level_order_from(_, _, _)
level_order_from(t, queue, fuel) ==
  IF queue = <<>> \/ fuel = 0 THEN <<>>
  ELSE IF ~Live(t, Head(queue)) THEN <<Head(queue)>>
  ELSE <<Head(queue)>>
       \o level_order_from(t, Tail(push_children(queue, get_left(t, Head(queue)),
                                                 get_right(t, Head(queue)))),
                           fuel - 1)

get_level_order(t) ==
  IF t.root = None THEN <<>> ELSE level_order_from(t, <<t.root>>, LoopFuel)

\* ----- the tests of the source ------------------------------------------------
\* A call is <<method, contents of the handle passed, value passed>>; the
\* tests keep each returned handle in a variable named after its contents.
insertion_test ==
  << <<"create_root", 0, 7>>, <<"insert_before", 7, 6>>, <<"insert_before", 6, 5>>,
     <<"insert_before", 5, 4>>, <<"insert_before", 4, 3>>, <<"insert_before", 3, 2>>,
     <<"insert_before", 2, 1>> >>

\* deletion_test up to its first assertion
deletion_test_build ==
  << <<"create_root", 0, 7>>, <<"insert_before", 7, 3>>, <<"insert_after", 7, 18>>,
     <<"insert_after", 7, 10>>, <<"insert_after", 18, 22>>, <<"insert_before", 10, 8>>,
     <<"insert_after", 10, 11>>, <<"insert_after", 22, 26>>, <<"insert_before", 3, 2>>,
     <<"insert_before", 7, 6>>, <<"insert_after", 11, 13>> >>

\* the handles deletion_test deletes, in its order
deletion_test_deleted == <<18, 11, 3, 10, 22>>

deletion_test ==
  deletion_test_build
  \o [i \in 1 .. Len(deletion_test_deleted) |-> <<"delete_node", deletion_test_deleted[i], 0>>]

IsPrefix(s, full) == Len(s) <= Len(full) /\ SubSeq(full, 1, Len(s)) = s

\* the handle a test holds for the node it created with contents v
handle_of(t, v) == CHOOSE k \in DOMAIN t.nodes : t.nodes[k].contents = v

TestStep(c, r) ==
  /\ status = "ok"
  /\ IsPrefix(Append(calls, c), insertion_test) \/ IsPrefix(Append(calls, c), deletion_test_build)
  /\ CommitTree(r, c[1])
  /\ calls' = Append(calls, c)

TestCreateRoot(v) == TestStep(<<"create_root", 0, v>>, create_root(Cur, v))

TestInsertBefore(e, v) ==
  /\ \E k \in DOMAIN nodes : nodes[k].contents = e
  /\ TestStep(<<"insert_before", e, v>>, insert_before(Cur, handle_of(Cur, e), v))

TestInsertAfter(e, v) ==
  /\ \E k \in DOMAIN nodes : nodes[k].contents = e
  /\ TestStep(<<"insert_after", e, v>>, insert_after(Cur, handle_of(Cur, e), v))

\* the deletions of deletion_test, taken in any order
TestDeleteNode(v) ==
  /\ status = "ok"
  /\ IsPrefix(deletion_test_build, calls)
  /\ \E k \in DOMAIN nodes : nodes[k].contents = v
  /\ CommitTree(delete_node(Cur, handle_of(Cur, v)), "delete_node")
  /\ calls' = Append(calls, <<"delete_node", v, 0>>)

TestValues == {c[3] : c \in SeqSet(insertion_test) \cup SeqSet(deletion_test_build)}

NextTests ==
  \/ \E v \in TestValues : TestCreateRoot(v)
  \/ \E e \in TestValues, v \in TestValues : TestInsertBefore(e, v)
  \/ \E e \in TestValues, v \in TestValues : TestInsertAfter(e, v)
  \/ \E v \in SeqSet(deletion_test_deleted) : TestDeleteNode(v)

SpecTests == Init /\ [][NextTests]_vars

\* the handles met going down from node through left and right links
RECURSIVE reachable_from(_, _, _)
reachable_from(t, node, fuel) ==
  IF node = None \/ fuel = 0 THEN {}
  ELSE IF ~Live(t, node) THEN {node}
  ELSE {node} \cup reachable_from(t, get_left(t, node), fuel - 1)
              \cup reachable_from(t, get_right(t, node), fuel - 1)

Reachable(t) == reachable_from(t, t.root, LoopFuel)

\* ----- the data-model invariants ----------------------------------------------
\* 1. parent/child consistency
ParentChildConsistent(t) ==
  /\ t.root # None => Live(t, t.root) /\ t.nodes[t.root].parent = None
  /\ \A n \in DOMAIN t.nodes :
       LET p == t.nodes[n].parent IN
       p # None => /\ Live(t, p)
                   /\ (t.nodes[p].left = n) # (t.nodes[p].right = n)
  /\ \A n \in DOMAIN t.nodes :
       \A c \in {t.nodes[n].left, t.nodes[n].right} :
         c # None => Live(t, c) /\ t.nodes[c].parent = n

\* 2. equal black-height below every node
BlackHeightEqual(t) ==
  \A n \in DOMAIN t.nodes : check_black_heights(t, n, LoopFuel) # -1

\* 3. no RED node has a RED child
NoRedRed(t) ==
  \A n \in DOMAIN t.nodes :
    t.nodes[n].color = RED =>
      /\ get_color(t, t.nodes[n].left) = BLACK
      /\ get_color(t, t.nodes[n].right) = BLACK

\* 4. the root is BLACK
RootBlack(t) == t.root # None => Live(t, t.root) /\ t.nodes[t.root].color = BLACK

\* 5. the order chain is the in-order walk and holds exactly the live nodes
OrderConsistent(t) ==
  LET o == get_nodes_order(t) IN
  /\ o = in_order(t, t.root, LoopFuel)
  /\ SeqSet(o) = DOMAIN t.nodes
  /\ Len(o) = Cardinality(DOMAIN t.nodes)

AllInvariants(t) ==
  /\ ParentChildConsistent(t)
  /\ BlackHeightEqual(t)
  /\ NoRedRed(t)
  /\ RootBlack(t)
  /\ OrderConsistent(t)

\* every prev/next link names a stored node and the links are mutually inverse
ChainLinksLive(t) ==
  /\ \A n \in DOMAIN t.nodes :
       /\ t.nodes[n].prev \in DOMAIN t.nodes \cup {None}
       /\ t.nodes[n].next \in DOMAIN t.nodes \cup {None}
  /\ \A n, m \in DOMAIN t.nodes : (t.nodes[n].next = m) <=> (t.nodes[m].prev = n)

\* ----- claims -------------------------------------------------------------------
\* C1: after any sequence of create_root, insert_before, insert_after and
\* delete_node calls on live handles, walking next from the leftmost node
\* visits exactly the live nodes, each once, in the order of the
\* left-self-right traversal of the tree.
C1_OrderConsistency == OrderConsistent(Cur)

\* C2: every delete_node call on a live node completes without failure and
\* leaves the five data-model invariants holding, and once the store is
\* empty has_root() is false (and only then).
C2_ExhaustiveDeletion ==
  last = "delete_node" =>
    /\ status = "ok"
    /\ AllInvariants(Cur)
    /\ (DOMAIN nodes = {}) <=> ~has_root(Cur)

\* C3: after every public operation, every downward path from a node to a
\* nil child crosses the same number of BLACK nodes.
C3_BlackHeight == BlackHeightEqual(Cur)

\* a deletion has just left four nodes, three of them BLACK, in a tree of
\* black-height 3 (nil counted)
C3_Witness ==
  /\ status = "ok" /\ last = "delete_node"
  /\ Cardinality(DOMAIN nodes) = 4
  /\ check_black_heights(Cur, root, LoopFuel) = 3

\* C4: after every public operation no RED node has a RED child.
C4_NoRedRed == NoRedRed(Cur)

\* an insertion has just left a RED node below a BLACK node that is not the root
C4_Witness ==
  /\ status = "ok" /\ last \in {"insert_after", "insert_before"}
  /\ \E n \in DOMAIN nodes :
       /\ nodes[n].color = RED
       /\ nodes[n].parent \in DOMAIN nodes
       /\ nodes[n].parent # root
       /\ nodes[nodes[n].parent].color = BLACK

\* C5: after every public operation the node named by root, if any, is BLACK.
C5_RootBlack == RootBlack(Cur)

\* a deletion has just made another node the root, and it has children
C5_Witness ==
  /\ status = "ok" /\ last = "delete_node"
  /\ root # None
  /\ root # 1
  /\ nodes[root].left # None /\ nodes[root].right # None
  /\ nodes[root].color = BLACK

\* C6: after every public operation each prev/next link of a live node is
\* none or names a live node, and next(n) = m exactly when prev(m) = n.
C6_ChainLinksLive == ChainLinksLive(Cur)

\* C7: no call whose precondition holds fails: no unwrap of a missing node
\* or link, no internal panic.
C7_NoFailure == status # "panic"

\* C8: delete_node(h) on a tree satisfying the invariants takes h out of the
\* order sequence and the store and leaves every other handle live, with
\* its contents, in the same relative order.
C8_DeleteRemovesOne ==
  [][\A h \in Keys :
       (AllInvariants(Cur) /\ DeleteNode(h)) =>
         /\ status' = "ok"
         /\ DOMAIN nodes' = DOMAIN nodes \ {h}
         /\ get_nodes_order(Cur)' = SeqWithout(get_nodes_order(Cur), h)
         /\ \A k \in DOMAIN nodes' : nodes'[k].contents = nodes[k].contents]_vars

\* C9: insert_after(a, v) on a live anchor a returns a new handle n with
\* contents v, next(a) = n, prev(n) = a, next(n) the former next(a) whose
\* prev (when it exists) is n; insert_before is symmetric.
C9_InsertSplices ==
  [][\A a \in Keys, v \in Values :
       LET n == NewKey(Cur) IN
       /\ InsertAfter(a, v) =>
            /\ status' = "ok"
            /\ n \in DOMAIN nodes' /\ n \notin DOMAIN nodes
            /\ nodes'[n].contents = v
            /\ nodes'[a].next = n /\ nodes'[n].prev = a
            /\ nodes'[n].next = nodes[a].next
            /\ nodes[a].next # None =>
                 nodes[a].next \in DOMAIN nodes' /\ nodes'[nodes[a].next].prev = n
       /\ InsertBefore(a, v) =>
            /\ status' = "ok"
            /\ n \in DOMAIN nodes' /\ n \notin DOMAIN nodes
            /\ nodes'[n].contents = v
            /\ nodes'[a].prev = n /\ nodes'[n].next = a
            /\ nodes'[n].prev = nodes[a].prev
            /\ nodes[a].prev # None =>
                 nodes[a].prev \in DOMAIN nodes' /\ nodes'[nodes[a].prev].next = n]_vars

\* C10: after every public operation the root has no parent, every node
\* with a parent is named by exactly one child slot of it, and every child
\* link names a live node whose parent link points back.
C10_ParentChild == ParentChildConsistent(Cur)

\* a deletion of a node with two children (a structural swap) or a rotation
\* has just left a tree of at least four nodes whose root is not the first key
C10_Witness ==
  /\ status = "ok" /\ last = "delete_node"
  /\ Cardinality(DOMAIN nodes) >= 4
  /\ root # None /\ root # 1
  /\ \E n \in DOMAIN nodes : nodes[n].parent # None /\ nodes[nodes[n].parent].parent # None

\* C11: create_root called on a tree that already has a root fails and
\* leaves the tree unchanged: root, the stored nodes and every node's links,
\* color and contents are as before the call.
C11_CreateRootRejected ==
  [][last' = "create_root again" =>
       status' = "panic" /\ nodes' = nodes /\ root' = root]_vars

C13_InsertionTest ==
  calls = insertion_test =>
    /\ status = "ok"
    /\ contents_of(Cur, get_nodes_order(Cur)) = <<1, 2, 3, 4, 5, 6, 7>>
    /\ contents_of(Cur, get_level_order(Cur)) = <<6, 4, 7, 2, 5, 1, 3>>
    /\ check_black_heights(Cur, root, LoopFuel) = 3

\* insertion_test has made its seven calls
C13_Witness == calls = insertion_test /\ status = "ok" /\ Cardinality(DOMAIN nodes) = 7

\* C14: the eleven insertions of deletion_test give order sequence
\* 2 3 6 7 8 10 11 13 18 22 26, level order 10 7 18 3 8 11 22 2 6 13 26 and
\* black-height 3; deleting 18, 11, 3, 10, 22 in that sequence then leaves
\* order sequence 2 6 7 8 13 26, level order 13 7 26 6 8 2 and black-height 3.
C14_DeletionTest ==
  /\ calls = deletion_test_build =>
       /\ status = "ok"
       /\ contents_of(Cur, get_nodes_order(Cur)) = <<2, 3, 6, 7, 8, 10, 11, 13, 18, 22, 26>>
       /\ contents_of(Cur, get_level_order(Cur)) = <<10, 7, 18, 3, 8, 11, 22, 2, 6, 13, 26>>
       /\ check_black_heights(Cur, root, LoopFuel) = 3
  /\ calls = deletion_test =>
       /\ status = "ok"
       /\ contents_of(Cur, get_nodes_order(Cur)) = <<2, 6, 7, 8, 13, 26>>
       /\ contents_of(Cur, get_level_order(Cur)) = <<13, 7, 26, 6, 8, 2>>
       /\ check_black_heights(Cur, root, LoopFuel) = 3

\* deletion_test has made its sixteen calls
C14_Witness == calls = deletion_test /\ status = "ok" /\ Cardinality(DOMAIN nodes) = 6

\* C15: every call of create_root, insert_after, insert_before and
\* delete_node terminates: the loops of insert_rebalance and fix_double_black
\* exit within the iteration budget, and so does the loop of
\* get_leftmost_node on the tree the call leaves.
C15_Terminates ==
  /\ status # "spin"
  /\ root # None => leftmost_iterations(Cur, root, LoopFuel) # -1

\* a deletion from a full store has completed, and the leftmost node of the
\* tree it left is two steps below the root
C15_Witness ==
  /\ status = "ok" /\ last = "delete_node"
  /\ Cardinality(DOMAIN nodes) = 5
  /\ leftmost_iterations(Cur, root, LoopFuel) = 2

\* what C16 says of t2, the tree delete_node leaves when called on a root
\* whose only child is child
RootReplacedBy(t2, child, deleted) ==
  /\ ~Stopped(t2)
  /\ t2.root = child
  /\ DOMAIN t2.nodes = {child}
  /\ deleted \notin DOMAIN t2.nodes
  /\ t2.nodes[child].parent = None
  /\ t2.nodes[child].left = None
  /\ t2.nodes[child].right = None
  /\ t2.nodes[child].color = BLACK

HasOneChild(t, n) == (get_left(t, n) = None) # (get_right(t, n) = None)

HasTwoChildren(t, n) == get_left(t, n) # None /\ get_right(t, n) # None

\* C16: delete_node on a root that has exactly one child leaves the former
\* child as the root, with no parent and no children, BLACK, the deleted
\* handle gone from the store and that one node the whole tree.
C16_RootWithOneChild ==
  (status = "ok" /\ root # None /\ HasOneChild(Cur, root)) =>
    RootReplacedBy(delete_node(Cur, root), get_replacement_node(Cur, root), root)

\* the root had one child and has just been deleted: the child is the root,
\* alone in the store (its order link still names the removed handle)
C16_Witness ==
  /\ status = "ok" /\ last = "delete_node"
  /\ Cardinality(DOMAIN nodes) = 1
  /\ root \in DOMAIN nodes
  /\ Removed \in {nodes[root].prev, nodes[root].next}

\* the slot insert_after(existing_node) writes is empty before the write
PlaceAfterSlotEmpty(t, existing_node) ==
  \/ get_right(t, existing_node) = None
  \/ /\ Live(t, get_next(t, existing_node))
     /\ get_left(t, get_next(t, existing_node)) = None

\* the slot insert_before(existing_node) writes is empty before the write
PlaceBeforeSlotEmpty(t, existing_node) ==
  \/ get_left(t, existing_node) = None
  \/ /\ Live(t, get_prev(t, existing_node))
     /\ get_right(t, get_prev(t, existing_node)) = None

\* C17: in insert_after the child slot written is empty before the write:
\* anchor's right slot is none, or anchor's order-successor exists and has no
\* left child; symmetrically for insert_before.  Placement never overwrites a
\* child link.
C17_PlacementSlotEmpty ==
  status = "ok" =>
    \A e \in DOMAIN nodes : PlaceAfterSlotEmpty(Cur, e) /\ PlaceBeforeSlotEmpty(Cur, e)

\* an insert_after has just filled the left slot of the successor of an
\* anchor that has a right child
C17_Witness ==
  /\ status = "ok" /\ last = "insert_after"
  /\ \E n \in DOMAIN nodes :
       /\ nodes[n].left = None /\ nodes[n].right = None
       /\ nodes[n].parent \in DOMAIN nodes
       /\ nodes[n].parent = nodes[n].next
       /\ nodes[nodes[n].parent].left = n
       /\ nodes[n].prev \in DOMAIN nodes
       /\ nodes[nodes[n].prev].right # None

\* C18: when the node has two children delete_node swaps it with its
\* order-successor, after which it has at most one child: get_replacement_node
\* is never called on a node with two children.
C18_SwapLeavesOneChild ==
  status = "ok" =>
    \A h \in DOMAIN nodes :
      HasTwoChildren(Cur, h) =>
        /\ ~Stopped(delete_node_swap(Cur, h))
        /\ ~HasTwoChildren(delete_node_swap(Cur, h), h)

\* a node with two children, whose successor has a right child, can be
\* deleted: the swap leaves it with that one child and delete_node removes it
C18_Witness ==
  /\ status = "ok"
  /\ \E h \in DOMAIN nodes :
       /\ HasTwoChildren(Cur, h)
       /\ get_right(Cur, get_next(Cur, h)) # None
       /\ HasOneChild(delete_node_swap(Cur, h), h)
       /\ ~Stopped(delete_node(Cur, h))
       /\ DOMAIN delete_node(Cur, h).nodes = DOMAIN nodes \ {h}

\* the handle in whose place k stands once a and b have changed places
Exchanged(k, a, b) == IF k = a THEN b ELSE IF k = b THEN a ELSE k

\* t2 is t with a and b exchanged in the tree: each handle has the parent,
\* children and color that the handle whose place it took had, the links of
\* the other nodes and root name the handle now in that place, and contents,
\* prev and next stay with their handles
SwapExchanges(t, t2, a, b) ==
  /\ ~Stopped(t2)
  /\ DOMAIN t2.nodes = DOMAIN t.nodes
  /\ t2.root = Exchanged(t.root, a, b)
  /\ \A n \in DOMAIN t.nodes :
       /\ t2.nodes[Exchanged(n, a, b)].parent = Exchanged(t.nodes[n].parent, a, b)
       /\ t2.nodes[Exchanged(n, a, b)].left = Exchanged(t.nodes[n].left, a, b)
       /\ t2.nodes[Exchanged(n, a, b)].right = Exchanged(t.nodes[n].right, a, b)
       /\ t2.nodes[Exchanged(n, a, b)].color = t.nodes[n].color
       /\ t2.nodes[n].contents = t.nodes[n].contents
       /\ t2.nodes[n].prev = t.nodes[n].prev
       /\ t2.nodes[n].next = t.nodes[n].next
       /\ n \notin {t2.nodes[n].parent, t2.nodes[n].left, t2.nodes[n].right}

\* swap_nodes exchanges a and b, called either way round
SwapsBothWays(t, a, b) ==
  /\ SwapExchanges(t, swap_nodes(t, a, b), a, b)
  /\ SwapExchanges(t, swap_nodes(t, b, a), b, a)

\* C19: swap_nodes(a, b) exchanges the parent, left, right and color of a
\* and b, with the back-links around them and root updated, and leaves the
\* contents, prev and next of every node unchanged; when one is the direct
\* child of the other, the child ends up as the parent in the same slot and
\* no node is its own parent or child.  Checked on the pairs delete_node
\* swaps: a node with two children and its order-successor, and a root and
\* its only child.
C19_SwapNodes ==
  status = "ok" =>
    /\ \A h \in DOMAIN nodes :
         HasTwoChildren(Cur, h) => SwapsBothWays(Cur, h, get_next(Cur, h))
    /\ (root # None /\ HasOneChild(Cur, root)) =>
         SwapsBothWays(Cur, root, get_replacement_node(Cur, root))

\* a node that is not the root has two children, the right one being its
\* order-successor, and swap_nodes makes that child its parent
C19_Witness ==
  /\ status = "ok"
  /\ \E h \in DOMAIN nodes :
       /\ h # root
       /\ HasTwoChildren(Cur, h)
       /\ get_next(Cur, h) = get_right(Cur, h)
       /\ get_parent(swap_nodes(Cur, h, get_next(Cur, h)), h) = get_next(Cur, h)
       /\ get_right(swap_nodes(Cur, h, get_next(Cur, h)), get_next(Cur, h)) = h

\* the nodes whose parent, left or right link differs between t and t2
LinksChanged(t, t2) ==
  {n \in DOMAIN t.nodes :
     \/ t2.nodes[n].parent # t.nodes[n].parent
     \/ t2.nodes[n].left # t.nodes[n].left
     \/ t2.nodes[n].right # t.nodes[n].right}

\* t2 is t rotated at rotation_root with `pivot` coming up and `inward` the
\* child of the pivot that changes sides
RotationFrame(t, t2, rotation_root, pivot, inward) ==
  /\ ~Stopped(t2)
  /\ DOMAIN t2.nodes = DOMAIN t.nodes
  /\ \A n \in DOMAIN t.nodes :
       /\ t2.nodes[n].prev = t.nodes[n].prev
       /\ t2.nodes[n].next = t.nodes[n].next
       /\ t2.nodes[n].color = t.nodes[n].color
       /\ t2.nodes[n].contents = t.nodes[n].contents
  /\ in_order(t2, t2.root, LoopFuel) = in_order(t, t.root, LoopFuel)
  /\ LinksChanged(t, t2) \subseteq {rotation_root, pivot, inward, get_parent(t, rotation_root)}
  /\ t2.root = (IF t.root = rotation_root THEN pivot ELSE t.root)
  /\ get_parent(t2, rotation_root) = pivot
  /\ get_parent(t2, pivot) = get_parent(t, rotation_root)

\* C20: left_rotate and right_rotate, at any node that has the pivot child,
\* leave every node's prev, next, color and contents and the left-self-right
\* sequence of the tree unchanged; only parent/left/right links of the
\* rotation root, the pivot, the pivot's inward child and the former parent
\* (or root) change.
C20_RotationFrame ==
  status = "ok" =>
    \A n \in DOMAIN nodes :
      /\ get_right(Cur, n) # None =>
           RotationFrame(Cur, left_rotate(Cur, n), n, get_right(Cur, n),
                         get_left(Cur, get_right(Cur, n)))
      /\ get_left(Cur, n) # None =>
           RotationFrame(Cur, right_rotate(Cur, n), n, get_left(Cur, n),
                         get_right(Cur, get_left(Cur, n)))

\* a node below the root has a left child that has a right child, and
\* right_rotate moves that grandchild into the node's left slot
C20_Witness ==
  /\ status = "ok"
  /\ \E n \in DOMAIN nodes :
       /\ n # root
       /\ get_left(Cur, n) # None
       /\ get_right(Cur, get_left(Cur, n)) # None
       /\ get_left(right_rotate(Cur, n), n) = get_right(Cur, get_left(Cur, n))
       /\ get_right(right_rotate(Cur, n), get_left(Cur, n)) = n

\* delete_node(node) has passed its swap giving t, and takes the branch for
\* a node with one child that is not the root
OneChildNotRoot(t, node) == ~Stopped(t) /\ node # t.root /\ HasOneChild(t, node)

\* t as lines 199-209 leave it: node replaced, unlinked and removed
AfterRemoval(t, node) == delete_one_child_remove(t, node, get_replacement_node(t, node))

\* fix_double_black(node) run once lines 199-209 have removed node completes
FixupAfterRemovalCompletes(t, node) ==
  ~Stopped(AfterRemoval(t, node)) => ~Stopped(fix_double_black(AfterRemoval(t, node), node))

\* fix_double_black(node) run once lines 199-209 have removed node fails:
\* get_sibling(node) starts with get_parent(node), a lookup of the removed
\* record
FixupAfterRemovalFails(t, node) ==
  ~Stopped(AfterRemoval(t, node)) => fix_double_black(AfterRemoval(t, node), node).panic

\* C21: in the one-child, non-root case of delete_node, fix_double_black is
\* started on the handle already removed from the store; it reads only the
\* sibling and parent of that position and never the removed record, so
\* running it after the removal does not fail.
C21_FixupAfterRemoval ==
  status = "ok" =>
    \A h \in DOMAIN nodes :
      OneChildNotRoot(delete_node_swap(Cur, h), h) =>
        FixupAfterRemovalCompletes(delete_node_swap(Cur, h), h)

\* C21 as amended: in the one-child, non-root case of delete_node,
\* fix_double_black is never started on the removed handle, because
\* both_black is false there; started there it would fail at once, its
\* first step being a lookup of the removed record.
C21_FixupNotStarted ==
  status = "ok" =>
    \A h \in DOMAIN nodes :
      OneChildNotRoot(delete_node_swap(Cur, h), h) =>
        /\ ~both_black(delete_node_swap(Cur, h), h)
        /\ FixupAfterRemovalFails(delete_node_swap(Cur, h), h)

\* a node below the root has one child and delete_node removes it without
\* starting the fixup, which would fail on the tree the removal leaves
C21_Witness ==
  /\ status = "ok"
  /\ \E h \in DOMAIN nodes :
       /\ OneChildNotRoot(Cur, h)
       /\ ~Stopped(AfterRemoval(Cur, h))
       /\ fix_double_black(AfterRemoval(Cur, h), h).panic
       /\ ~Stopped(delete_node(Cur, h))
       /\ DOMAIN delete_node(Cur, h).nodes = DOMAIN nodes \ {h}

\* delete_node(node) has passed its swap giving t, and takes the branch for
\* a BLACK leaf that is not the root
BlackLeafNotRoot(t, node) ==
  /\ ~Stopped(t) /\ node # t.root
  /\ ~HasOneChild(t, node) /\ ~HasTwoChildren(t, node)
  /\ get_color(t, node) = BLACK

\* t1 is the tree fix_double_black(node) returned: node is still a childless
\* node in exactly one child slot of its parent
StillAttachedLeaf(t1, node) ==
  /\ ~Stopped(t1)
  /\ Live(t1, node)
  /\ get_left(t1, node) = None /\ get_right(t1, node) = None
  /\ Live(t1, get_parent(t1, node))
  /\ (get_left(t1, get_parent(t1, node)) = node) # (get_right(t1, get_parent(t1, node)) = node)

\* t2 is t1 with the one slot that names node cleared: no other link
\* differs and every other node is still below the root
DetachedOnly(t1, t2, node) ==
  /\ ~Stopped(t2)
  /\ LinksChanged(t1, t2) = {get_parent(t1, node)}
  /\ node \notin {get_left(t2, get_parent(t1, node)), get_right(t2, get_parent(t1, node))}
  /\ Reachable(t2) = Reachable(t1) \ {node}
  /\ Reachable(t2) = DOMAIN t1.nodes \ {node}

FixupThenDetach(t, node) ==
  /\ StillAttachedLeaf(fix_double_black(t, node), node)
  /\ DetachedOnly(fix_double_black(t, node), detach(fix_double_black(t, node), node), node)

\* C22: in the BLACK non-root leaf case of delete_node, fix_double_black(node)
\* runs while node is attached, and when it returns node is still a childless
\* node in a child slot of its current parent, so the detach that follows
\* clears exactly the slot that names node and removes no other node.
C22_DetachAfterFixup ==
  status = "ok" =>
    \A h \in DOMAIN nodes :
      BlackLeafNotRoot(delete_node_swap(Cur, h), h) =>
        FixupThenDetach(delete_node_swap(Cur, h), h)

\* a BLACK leaf below the root whose fixup rotates at its parent: the parent
\* has gone down under the former sibling when fix_double_black returns, the
\* leaf is still its right child, and the detach clears that slot
C22_Witness ==
  /\ status = "ok"
  /\ \E h \in DOMAIN nodes :
       /\ BlackLeafNotRoot(Cur, h)
       /\ get_parent(fix_double_black(Cur, h), get_parent(Cur, h))
            = get_left(Cur, get_parent(Cur, h))
       /\ get_right(fix_double_black(Cur, h), get_parent(Cur, h)) = h
       /\ FixupThenDetach(Cur, h)

\* node is BLACK and child, its only child, is a RED leaf
BlackOverRedLeaf(t, node, child) ==
  /\ get_color(t, node) = BLACK
  /\ Live(t, child)
  /\ get_color(t, child) = RED
  /\ get_left(t, child) = None /\ get_right(t, child) = None

\* t2, the tree delete_node returns, holds child BLACK
ReplacementBlack(t2, child) ==
  ~Stopped(t2) => Live(t2, child) /\ get_color(t2, child) = BLACK

\* C23: whenever delete_node reaches the one-child case (after the optional
\* swap), the node is BLACK and its single child is a RED leaf; both_black is
\* false, so fix_double_black is not called on the removed handle, and the
\* replacement is BLACK when delete_node returns.
C23_OneChildIsRedLeaf ==
  status = "ok" =>
    \A h \in DOMAIN nodes :
      (~Stopped(delete_node_swap(Cur, h)) /\ HasOneChild(delete_node_swap(Cur, h), h)) =>
        /\ BlackOverRedLeaf(delete_node_swap(Cur, h), h,
                            get_replacement_node(delete_node_swap(Cur, h), h))
        /\ ~both_black(delete_node_swap(Cur, h), h)
        /\ ReplacementBlack(delete_node(Cur, h),
                            get_replacement_node(delete_node_swap(Cur, h), h))

\* a node with two children is swapped with a successor that has a right
\* child, which puts it in the one-child case below the root, and
\* delete_node returns with that child BLACK
C23_Witness ==
  /\ status = "ok"
  /\ \E h \in DOMAIN nodes :
       /\ HasTwoChildren(Cur, h)
       /\ OneChildNotRoot(delete_node_swap(Cur, h), h)
       /\ ~Stopped(delete_node(Cur, h))
       /\ get_color(delete_node(Cur, h), get_right(Cur, get_next(Cur, h))) = BLACK
       /\ get_color(Cur, get_right(Cur, get_next(Cur, h))) = RED

\* delete_node(node) has passed its swap giving t, and takes the branch for
\* a leaf that is not the root with both_black false: the node is RED
RedLeafNotRoot(t, node) ==
  /\ ~Stopped(t) /\ node # t.root
  /\ ~HasOneChild(t, node) /\ ~HasTwoChildren(t, node)
  /\ get_color(t, node) = RED

\* every node of t2 has the color it has in t
ColorsKept(t, t2) ==
  \A n \in DOMAIN t2.nodes : Live(t, n) /\ t2.nodes[n].color = t.nodes[n].color

\* t2 is t with node taken out of its parent's slot and nothing else moved
OnlyDetached(t, t2, node) ==
  /\ ~Stopped(t2)
  /\ DOMAIN t2.nodes = DOMAIN t.nodes
  /\ ColorsKept(t, t2)
  /\ LinksChanged(t, t2) = {get_parent(t, node)}
  /\ t2.root = t.root

\* C24: in the RED-leaf case of delete_node the sibling of the node, when it
\* exists, is RED before the recolor, so the recolor changes no color, and
\* deleting a RED leaf changes no colors and performs no rotation.
C24_RedLeafFrame ==
  status = "ok" =>
    \A h \in DOMAIN nodes :
      RedLeafNotRoot(delete_node_swap(Cur, h), h) =>
        /\ get_color(delete_node_swap(Cur, h), get_sibling(delete_node_swap(Cur, h), h)) = RED
           \/ get_sibling(delete_node_swap(Cur, h), h) = None
        /\ redden_sibling(delete_node_swap(Cur, h), h) = delete_node_swap(Cur, h)
        /\ OnlyDetached(delete_node_swap(Cur, h),
                        detach(redden_sibling(delete_node_swap(Cur, h), h), h), h)
        /\ ~Stopped(delete_node(Cur, h)) =>
             ColorsKept(delete_node_swap(Cur, h), delete_node(Cur, h))

\* a RED leaf that has a sibling is deleted: the sibling is RED before and
\* after, and so is every other color
C24_Witness ==
  /\ status = "ok"
  /\ \E h \in DOMAIN nodes :
       /\ RedLeafNotRoot(Cur, h)
       /\ get_sibling(Cur, h) # None
       /\ ~Stopped(delete_node(Cur, h))
       /\ get_color(delete_node(Cur, h), get_sibling(Cur, h)) = RED
       /\ ColorsKept(Cur, delete_node(Cur, h))
       /\ DOMAIN delete_node(Cur, h).nodes = DOMAIN nodes \ {h}

\* C25: after every public operation whose precondition holds, the handles
\* in the node store are exactly the nodes reachable from root through
\* left/right links (none when root is none): no stored node is unreachable
\* and no reachable link names a handle missing from the store.
C25_StoreIsReachable ==
  status = "ok" => Reachable(Cur) = DOMAIN nodes

\* a delete_node has left a tree of three or more nodes, all reachable
C25_Witness ==
  /\ status = "ok" /\ last = "delete_node"
  /\ Cardinality(DOMAIN nodes) >= 3
  /\ Reachable(Cur) = DOMAIN nodes

====
